---------------------------- MODULE Spec2Model ----------------------------
(***************************************************************************)
(* Model of the spreadsheet service of src/src/server.ts: the tabular      *)
(* codec (convertRowsForFirestore / convertFirestoreToRows), the document  *)
(* identity policy (generateDocumentId, saveToFirestore) and the HTTP      *)
(* handlers over the 'excel_data' collection.                              *)
(*                                                                         *)
(* Program strings that the code inspects character by character (cells,   *)
(* file names, document ids, search terms) are sequences of one-character  *)
(* strings; object keys and field names are TLA+ strings.                  *)
(***************************************************************************)
EXTENDS Integers, Sequences, FiniteSets, TLC

VARIABLES
    store,       \* the 'excel_data' collection: document id -> document fields
    clock,       \* Date.now() of the server process, in milliseconds
    serverTime,  \* the store's commit clock (FieldValue.serverTimestamp())
    resp,        \* the response the last step sent, NoResponse if it sent none
    firstAt,     \* history: id -> the commit time at which the stored record of id was first persisted
    codec,       \* the codec's input and outputs (specification CodecSpec)
    arrived,     \* the number of requests received so far
    inflight     \* the requests whose handler awaits the store or has its answer
                 \* from the store and is about to respond

vars == <<store, clock, serverTime, resp, firstAt, codec, arrived, inflight>>

-----------------------------------------------------------------------------
(* Bounds *)

MaxCols == 2      \* header sequences of length 0..MaxCols
MaxRows == 2      \* row sequences of length 0..MaxRows (codec inputs)
MaxRowLen == 3    \* rows of length 0..MaxRowLen (codec inputs)
MaxClock == 1     \* Date.now() ranges over 0..MaxClock
MaxRequests == 3  \* at most MaxRequests requests in a behaviour
MaxInflight == 2  \* at most MaxInflight requests await the store at a time

-----------------------------------------------------------------------------
(* JavaScript strings *)

Digits == <<"0", "1", "2", "3", "4", "5", "6", "7", "8", "9">>

\* Number.prototype.toString() of a non-negative integer
RECURSIVE NatToChars(_)
NatToChars(n) ==
    IF n < 10 THEN <<Digits[n + 1]>>
    ELSE NatToChars(n \div 10) \o <<Digits[(n % 10) + 1]>>

\* the characters of a template string part joined into one key
RECURSIVE Join(_)
Join(cs) == IF cs = <<>> THEN "" ELSE cs[1] \o Join(Tail(cs))

UpperChars == <<"A", "B", "X", "L", "S">>
LowerChars == <<"a", "b", "x", "l", "s">>

\* String.prototype.toLowerCase(), one character
LowerChar(c) ==
    IF \E i \in 1..Len(UpperChars) : UpperChars[i] = c
    THEN LowerChars[CHOOSE i \in 1..Len(UpperChars) : UpperChars[i] = c]
    ELSE c

toLowerCase(s) == [i \in 1..Len(s) |-> LowerChar(s[i])]

\* String.prototype.includes(t): t occurs in s as a contiguous substring
includes(s, t) ==
    \E k \in 0..(Len(s) - Len(t)) : \A j \in 1..Len(t) : s[k + j] = t[j]

-----------------------------------------------------------------------------
(* Cells: the values sheet_to_json yields, as a tagged variant *)

StrCell(s) == [t |-> "str", v |-> s]
NumCell(n) == [t |-> "num", v |-> n]
BoolCell(b) == [t |-> "bool", v |-> b]
EmptyCell == [t |-> "empty", v |-> 0]     \* undefined / null / a hole

\* cell.toString() of a cell that is not undefined / null
toString(c) ==
    CASE c.t = "str" -> c.v
      [] c.t = "num" -> NatToChars(c.v)
      [] c.t = "bool" -> (IF c.v THEN <<"t", "r", "u", "e">> ELSE <<"f", "a", "l", "s", "e">>)

\* row[headerIndex] with headerIndex 0-based: undefined past the end of the row
CellAt(row, headerIndex) ==
    IF headerIndex + 1 <= Len(row) THEN row[headerIndex + 1] ELSE EmptyCell

\* mutant: the cell itself is tested for truthiness before it is converted
EncodeCellFalsy(row, headerIndex) ==
    LET c == CellAt(row, headerIndex) IN
    IF \/ c.t = "empty"
       \/ (c.t = "num" /\ c.v = 0)
       \/ (c.t = "bool" /\ ~c.v)
       \/ (c.t = "str" /\ c.v = <<>>)
    THEN <<>> ELSE toString(c)

\* row[headerIndex]?.toString() || '': ?. yields undefined for an empty cell,
\* and undefined || '' and '' || '' are both ''
EncodeCell(row, headerIndex) ==
    LET c == CellAt(row, headerIndex) IN
    IF c.t = "empty" THEN <<>> ELSE toString(c)

\* `col_${headerIndex}`
ColKey(headerIndex) == "col_" \o Join(NatToChars(headerIndex))

ColKeys(headers) == {ColKey(h) : h \in 0..(Len(headers) - 1)}

\* mutant: rowIndex counted from 1
RowObjectOneBased(headers, row, index) ==
    [k \in {"rowIndex"} \cup ColKeys(headers) |->
        IF k = "rowIndex" THEN index + 1
        ELSE EncodeCell(row, CHOOSE h \in 0..(Len(headers) - 1) : ColKey(h) = k)]

\* mutant: the keys follow the cells of the row instead of the headers
RowObjectRowKeys(headers, row, index) ==
    [k \in {"rowIndex"} \cup {ColKey(h) : h \in 0..(Len(row) - 1)} |->
        IF k = "rowIndex" THEN index
        ELSE EncodeCell(row, CHOOSE h \in 0..(Len(row) - 1) : ColKey(h) = k)]

\* the body of rows.map in convertRowsForFirestore: one flat mapping per row
RowObject(headers, row, index) ==
    [k \in {"rowIndex"} \cup ColKeys(headers) |->
        IF k = "rowIndex" THEN index
        ELSE EncodeCell(row, CHOOSE h \in 0..(Len(headers) - 1) : ColKey(h) = k)]

convertRowsForFirestore(headers, rows) ==
    [i \in 1..Len(rows) |-> RowObject(headers, rows[i], i - 1)]

\* rowObj[`col_${index}`] || '': '' when the key is absent (undefined) or holds ''
DecodeCell(rowObj, index) ==
    IF ColKey(index) \in DOMAIN rowObj THEN rowObj[ColKey(index)] ELSE <<>>

convertFirestoreToRows(headers, rowsData) ==
    [i \in 1..Len(rowsData) |->
        [h \in 1..Len(headers) |-> DecodeCell(rowsData[i], h - 1)]]

-----------------------------------------------------------------------------
(* Document identity *)

\* the characters of the model's strings, in code-unit order
Alphabet == <<" ", "-", ".", "0", "1", "2", "3", "4", "5", "6", "7", "8", "9",
              "A", "B", "L", "S", "X", "_", "a", "b", "l", "s", "x">>

CharCode(c) == CHOOSE i \in 1..Len(Alphabet) : Alphabet[i] = c

\* the character class [a-zA-Z0-9_-]
IsSafeChar(c) == c \notin {" ", "."}

EndsWith(s, suffix) ==
    /\ Len(s) >= Len(suffix)
    /\ \A j \in 1..Len(suffix) : s[Len(s) - Len(suffix) + j] = suffix[j]

\* .replace(/\.(xlsx|xls)$/i, '')
StripExtension(fileName) ==
    LET lower == toLowerCase(fileName) IN
    IF EndsWith(lower, <<".", "x", "l", "s", "x">>) THEN SubSeq(fileName, 1, Len(fileName) - 5)
    ELSE IF EndsWith(lower, <<".", "x", "l", "s">>) THEN SubSeq(fileName, 1, Len(fileName) - 4)
    ELSE fileName

\* .replace(/[^a-zA-Z0-9_-]/g, '_')
ReplaceSpecial(s) == [i \in 1..Len(s) |-> IF IsSafeChar(s[i]) THEN s[i] ELSE "_"]

\* generateDocumentId(fileName) for a string fileName, with Date.now() = now
generateDocumentId(fileName, now) ==
    toLowerCase(ReplaceSpecial(StripExtension(fileName))) \o <<"_">> \o NatToChars(now)

\* req.body.documentId: a string field of the multipart body, or undefined
NoId == [present |-> FALSE, v |-> <<>>]
SomeId(s) == [present |-> TRUE, v |-> s]

\* if (documentId): undefined and '' are falsy
Truthy(customId) == customId.present /\ customId.v # <<>>

-----------------------------------------------------------------------------
(* The document store *)

\* mutant: the merge option is dropped, the document is replaced
SetMergeReplaces(docs, id, docData) ==
    [i \in DOMAIN docs \cup {id} |-> IF i = id THEN docData ELSE docs[i]]

\* mutant: headers and rowsData are merged element by element, so the
\* elements of a longer stored array stay behind those of the write
SetMergeElementwise(docs, id, docData) ==
    [i \in DOMAIN docs \cup {id} |->
        IF i # id THEN docs[i]
        ELSE IF id \notin DOMAIN docs THEN docData
        ELSE [f \in DOMAIN docs[id] \cup DOMAIN docData |->
                 IF f \notin DOMAIN docData THEN docs[id][f]
                 ELSE IF f \in {"headers", "rowsData"} /\ f \in DOMAIN docs[id]
                 THEN [k \in 1..IF Len(docData[f]) > Len(docs[id][f])
                                THEN Len(docData[f]) ELSE Len(docs[id][f]) |->
                          IF k <= Len(docData[f]) THEN docData[f][k] ELSE docs[id][f][k]]
                 ELSE docData[f]]]

\* docRef.set(docData, { merge: true }): the fields of docData are written,
\* every other field of an existing document is kept
SetMerge(docs, id, docData) ==
    [i \in DOMAIN docs \cup {id} |->
        IF i # id THEN docs[i]
        ELSE IF id \notin DOMAIN docs THEN docData
        ELSE [f \in DOMAIN docs[id] \cup DOMAIN docData |->
                 IF f \in DOMAIN docData THEN docData[f] ELSE docs[id][f]]]

\* docRef.set(docData): the document is created or replaced
SetDoc(docs, id, docData) ==
    [i \in DOMAIN docs \cup {id} |-> IF i = id THEN docData ELSE docs[i]]

\* docRef.delete(): no precondition, a missing document is not an error
DeleteDoc(docs, id) == [i \in DOMAIN docs \ {id} |-> docs[i]]

\* the order of document names: code units compared left to right, a proper
\* prefix first
RECURSIVE NameBefore(_, _)
NameBefore(a, b) ==
    IF a = <<>> THEN b # <<>>
    ELSE IF b = <<>> THEN FALSE
    ELSE IF a[1] # b[1] THEN CharCode(a[1]) < CharCode(b[1])
    ELSE NameBefore(Tail(a), Tail(b))

\* collection.get(): the documents in document-name order
SnapshotAll(docs) ==
    [k \in 1..Cardinality(DOMAIN docs) |->
        CHOOSE x \in DOMAIN docs :
            Cardinality({y \in DOMAIN docs : NameBefore(y, x)}) = k - 1]

\* collection.orderBy('uploadedAt', 'desc').get(): the documents that have the
\* field, latest first, equal values in descending name order
SnapshotByUploadedAtDesc(docs) ==
    LET S == {i \in DOMAIN docs : "uploadedAt" \in DOMAIN docs[i]}
        Before(x, y) == \/ docs[x].uploadedAt > docs[y].uploadedAt
                        \/ /\ docs[x].uploadedAt = docs[y].uploadedAt
                           /\ NameBefore(y, x)
    IN [k \in 1..Cardinality(S) |->
           CHOOSE x \in S : Cardinality({y \in S : Before(y, x)}) = k - 1]

-----------------------------------------------------------------------------
(* Requests *)

\* sheet_to_json(worksheet, { header: 1 }) of the first sheet of an uploaded
\* workbook: its rows, the header row first
EmptySheet == <<>>

HeaderOnlySheet == << <<<<"N">>>> >>

DataSheet ==
    << <<<<"N">>, <<"Q">>>>,
       <<StrCell(<<"A", "b">>)>>,
       <<BoolCell(FALSE), NumCell(30), StrCell(<<"B">>)>>,
       <<EmptyCell, StrCell(<<"b">>)>> >>

\* the index of the last c in s, 0 when s has none
LastIndexOf(s, c) ==
    IF \E i \in 1..Len(s) : s[i] = c
    THEN CHOOSE i \in 1..Len(s) : s[i] = c /\ \A j \in (i + 1)..Len(s) : s[j] # c
    ELSE 0

\* path.extname(p): from the last '.' of the last component of p to its end;
\* empty when the component has no '.', starts with its only '.', or is '..'
extname(p) ==
    LET end == IF \E i \in 1..Len(p) : p[i] # "/"
               THEN CHOOSE i \in 1..Len(p) : p[i] # "/" /\ \A j \in (i + 1)..Len(p) : p[j] = "/"
               ELSE 0
        trimmed == SubSeq(p, 1, end)
        base == SubSeq(trimmed, LastIndexOf(trimmed, "/") + 1, end)
        dot == LastIndexOf(base, ".")
    IN IF dot <= 1 \/ base = <<".", ".">> THEN <<>> ELSE SubSeq(base, dot, Len(base))

\* fileFilter of multer: ext === '.xlsx' || ext === '.xls'
fileFilter(originalname) ==
    extname(originalname) \in {<<".", "x", "l", "s", "x">>, <<".", "x", "l", "s">>}

\* req.file: undefined when the request has no file part, otherwise the
\* uploaded workbook by its name and the rows of its first sheet
NoFile == [present |-> FALSE, originalname |-> <<>>, jsonData |-> <<>>]

File(originalname, jsonData) ==
    [present |-> TRUE, originalname |-> originalname, jsonData |-> jsonData]

\* the file part of the upload requests; the last name is one the filter rejects
Files ==
    <<NoFile,
      File(<<"b", ".", "x", "l", "s">>, EmptySheet),
      File(<<"A", " ", "b", ".", "x", "l", "s", "x">>, HeaderOnlySheet),
      File(<<"A", "b", ".", "x", "l", "s", "x">>, DataSheet),
      File(<<"A", " ", "b", ".", "X", "L", "S", "X">>, DataSheet)>>

\* the documentId field of the upload body
CustomIds == <<SomeId(<<"a">>), NoId, SomeId(<<>>)>>

\* the ids fetches and deletes name: the explicit one and one that is derived
RequestIds == {<<"a">>, generateDocumentId(<<>>, 0)}

\* the searchTerm field of a search body: absent, empty, one equal to a whole
\* cell but for its letter case, and one that is part of a cell of two rows
SearchTerms ==
    <<NoId, SomeId(<<>>), SomeId(<<"A", "B">>), SomeId(<<"b">>)>>

Failure(status, error) == [status |-> status, body |-> [error |-> error]]

-----------------------------------------------------------------------------
(* saveToFirestore and the upload handler *)

\* docData of saveToFirestore, with both timestamps set by the store at commit
\* excelData of the upload handler
ExcelData(file, customId) ==
    [headers |-> file.jsonData[1],
     rows |-> Tail(file.jsonData),
     fileName |-> customId,
     rowCount |-> Len(Tail(file.jsonData))]

DocData(data, commitTime) ==
    [fileName |-> data.fileName.v,
     headers |-> data.headers,
     rowsData |-> convertRowsForFirestore(data.headers, data.rows),
     rowCount |-> data.rowCount,
     uploadedAt |-> commitTime,
     updatedAt |-> commitTime]

\* saveToFirestore(data, documentId) on the collection docs; ok: the store
\* accepts the write. threw: the call rejects (a TypeError of
\* generateDocumentId on an undefined fileName, or the store's error).
saveToFirestore(docs, data, documentId, now, commitTime, ok) ==
    IF Truthy(documentId)
    THEN IF ok
         THEN [threw |-> FALSE, id |-> documentId.v,
               docs |-> SetMerge(docs, documentId.v, DocData(data, commitTime))]
         ELSE [threw |-> TRUE, id |-> <<>>, docs |-> docs]
    ELSE IF ~data.fileName.present
         THEN [threw |-> TRUE, id |-> <<>>, docs |-> docs]
         ELSE LET finalDocId == generateDocumentId(data.fileName.v, now) IN
              IF ok
              THEN [threw |-> FALSE, id |-> finalDocId,
                    docs |-> SetDoc(docs, finalDocId, DocData(data, commitTime))]
              ELSE [threw |-> TRUE, id |-> <<>>, docs |-> docs]

\* mutant: a sheet without data rows is taken for an empty file
IsEmptySheetNoData(jsonData) == Len(jsonData) <= 1

\* jsonData.length === 0
IsEmptySheet(jsonData) == Len(jsonData) = 0

\* POST /api/upload, upload.single('file') and then the handler: the
\* response, the collection after it, and whether and where a document was
\* written. A file the filter rejects goes to the error handler of Express.
uploadHandler(docs, file, customId, now, commitTime, ok) ==
    IF file.present /\ ~fileFilter(file.originalname)
    THEN Failure(500, "only excel files allowed") @@ [docs |-> docs, wrote |-> FALSE, id |-> <<>>]
    ELSE IF ~file.present
    THEN Failure(400, "no file uploaded") @@ [docs |-> docs, wrote |-> FALSE, id |-> <<>>]
    ELSE IF IsEmptySheet(file.jsonData)
    THEN Failure(400, "file is empty") @@ [docs |-> docs, wrote |-> FALSE, id |-> <<>>]
    ELSE LET excelData == ExcelData(file, customId)
             saved == saveToFirestore(docs, excelData, customId, now, commitTime, ok)
         IN IF saved.threw
            THEN Failure(500, "file processing error")
                     @@ [docs |-> docs, wrote |-> FALSE, id |-> <<>>]
            ELSE [status |-> 200,
                  body |-> [headers |-> excelData.headers, rows |-> excelData.rows,
                            fileName |-> customId.v, rowCount |-> excelData.rowCount,
                            firestore |-> [id |-> saved.id, success |-> TRUE]],
                  docs |-> saved.docs, wrote |-> TRUE, id |-> saved.id]

-----------------------------------------------------------------------------
(* The read, delete and search handlers *)

Reply(op, req, r) == [op |-> op, req |-> req, status |-> r.status, body |-> r.body]

\* GET /api/files
listHandler(docs, ok) ==
    IF ~ok THEN Failure(500, "data retrieval error")
    ELSE LET ids == SnapshotByUploadedAtDesc(docs)
             files == [k \in 1..Len(ids) |->
                          [id |-> ids[k],
                           fileName |-> docs[ids[k]].fileName,
                           rowCount |-> docs[ids[k]].rowCount,
                           uploadedAt |-> docs[ids[k]].uploadedAt,
                           updatedAt |-> docs[ids[k]].updatedAt]]
         IN [status |-> 200, body |-> [files |-> files, count |-> Len(files)]]


\* GET /api/files/:id
fetchHandler(docs, id, ok) ==
    IF ~ok THEN Failure(500, "data retrieval error")
    ELSE IF id \notin DOMAIN docs THEN Failure(404, "file not found")
    ELSE LET data == docs[id] IN
         [status |-> 200,
          body |-> [id |-> id,
                    fileName |-> data.fileName,
                    headers |-> data.headers,
                    rows |-> convertFirestoreToRows(data.headers, data.rowsData),
                    rowCount |-> data.rowCount,
                    uploadedAt |-> data.uploadedAt,
                    updatedAt |-> data.updatedAt]]

\* mutant: the document is looked up first and a missing one answered 404
deleteHandlerChecked(docs, id, ok) ==
    IF ~ok THEN Failure(500, "file deletion error") @@ [docs |-> docs]
    ELSE IF id \notin DOMAIN docs THEN Failure(404, "file not found") @@ [docs |-> docs]
    ELSE [status |-> 200, body |-> [success |-> TRUE], docs |-> DeleteDoc(docs, id)]

\* DELETE /api/files/:id
deleteHandler(docs, id, ok) ==
    IF ~ok THEN Failure(500, "file deletion error") @@ [docs |-> docs]
    ELSE [status |-> 200, body |-> [success |-> TRUE], docs |-> DeleteDoc(docs, id)]

\* mutant: the cell is compared without lower-casing it
RowMatchesCaseSensitive(row, searchTerm) ==
    \E h \in 1..Len(row) : includes(row[h], toLowerCase(searchTerm))

\* row.some(cell => cell?.toString().toLowerCase().includes(searchTerm.toLowerCase()))
\* on a decoded row, whose cells are strings
RowMatches(row, searchTerm) ==
    \E h \in 1..Len(row) : includes(toLowerCase(row[h]), toLowerCase(searchTerm))

\* the results pushed while the snapshot's documents ids[k..] are visited
RECURSIVE SearchResults(_, _, _, _)
SearchResults(docs, ids, k, searchTerm) ==
    IF k > Len(ids) THEN <<>>
    ELSE LET data == docs[ids[k]]
             rows == convertFirestoreToRows(data.headers, data.rowsData)
             matchingRows == SelectSeq(rows, LAMBDA row : RowMatches(row, searchTerm))
             rest == SearchResults(docs, ids, k + 1, searchTerm)
         IN IF Len(matchingRows) > 0
            THEN <<[id |-> ids[k], fileName |-> data.fileName, headers |-> data.headers,
                    matchingRows |-> matchingRows, matchCount |-> Len(matchingRows)]>>
                     \o rest
            ELSE rest

\* POST /api/search
searchHandler(docs, term, ok) ==
    IF ~Truthy(term) THEN Failure(400, "search term missing")
    ELSE IF ~ok THEN Failure(500, "search error")
    ELSE LET results == SearchResults(docs, SnapshotAll(docs), 1, term.v) IN
         [status |-> 200, body |-> [results |-> results, totalMatches |-> Len(results)]]

-----------------------------------------------------------------------------
(* The service: a handler runs from the arrival of its request to its      *)
(* awaited store call, the store serves the calls that are pending one at  *)
(* a time in any order, and the handler then runs on to its response       *)

EmptyStore == [i \in {} |-> <<>>]

\* a document another client of the collection wrote, with a field of its own
LegacyDoc ==
    [fileName |-> <<"a">>, headers |-> <<<<"N">>>>,
     rowsData |-> <<[rowIndex |-> 0, col_0 |-> <<"x">>]>>, rowCount |-> 1,
     uploadedAt |-> 0, updatedAt |-> 0, note |-> <<"x">>]

CodecIdle == [pc |-> "idle"]

\* a request slot: pc is idle, pending (the store call is issued) or served
\* (the call is settled); f the file of an upload, req its documentId, the id
\* of a fetch or delete, the term of a search; now the Date.now() an upload
\* read; ok whether the call resolved; snap what a get() returned
IdleSlot ==
    [pc |-> "idle", op |-> "none", f |-> 0, req |-> NoId, now |-> 0,
     ok |-> TRUE, snap |-> EmptyStore]

\* no request awaits the store
NoneInflight == [s \in 1..MaxInflight |-> IdleSlot]

NoResponse == [op |-> "none", req |-> NoId, status |-> 0, body |-> [error |-> "none"]]

Init ==
    /\ \/ store = EmptyStore /\ firstAt = EmptyStore
       \/ store = [i \in {<<"a">>} |-> LegacyDoc] /\ firstAt = [i \in {<<"a">>} |-> 0]
    /\ clock = 0
    /\ serverTime = 0
    /\ resp = NoResponse
    /\ codec = CodecIdle
    /\ arrived = 0
    /\ inflight = NoneInflight

\* the slot a request takes when its handler reaches its await
FreeSlot(s) ==
    /\ inflight[s].pc = "idle"
    /\ \A t \in 1..(s - 1) : inflight[t].pc # "idle"

\* the handler of request op awaits its store call
Await(op, f, req, now) ==
    /\ arrived < MaxRequests
    /\ arrived' = arrived + 1
    /\ \E s \in 1..MaxInflight :
          /\ FreeSlot(s)
          /\ inflight' = [inflight EXCEPT ![s] =
                [IdleSlot EXCEPT !.pc = "pending", !.op = op, !.f = f,
                                 !.req = req, !.now = now]]
    /\ resp' = NoResponse
    /\ UNCHANGED <<store, clock, serverTime, firstAt, codec>>

\* the request is answered without a store call
AnswerAtOnce(op, req, answer) ==
    /\ arrived < MaxRequests
    /\ arrived' = arrived + 1
    /\ resp' = Reply(op, req, answer)
    /\ UNCHANGED <<store, clock, serverTime, firstAt, codec, inflight>>

\* the uploads that end before saveToFirestore reaches docRef.set: the filter
\* or the handler rejects the file, or generateDocumentId throws on an
\* undefined fileName
EndsBeforeStore(file, customId) ==
    \/ ~file.present
    \/ ~fileFilter(file.originalname)
    \/ IsEmptySheet(file.jsonData)
    \/ (~Truthy(customId) /\ ~customId.present)

\* POST /api/upload up to `await docRef.set(...)`; Date.now() is read on the
\* way when the id is derived
UploadReq(f, customId) ==
    IF EndsBeforeStore(Files[f], customId)
    THEN AnswerAtOnce("upload", customId,
                      uploadHandler(store, Files[f], customId, clock, serverTime, TRUE))
    ELSE Await("upload", f, customId, IF Truthy(customId) THEN 0 ELSE clock)

Upload == \E f \in 1..Len(Files), c \in 1..Len(CustomIds) : UploadReq(f, CustomIds[c])

\* GET /api/files up to `await ...get()`
ListReq == Await("list", 0, NoId, 0)

List == ListReq

\* GET /api/files/:id up to `await docRef.get()`
FetchReq(id) == Await("fetch", 0, SomeId(id), 0)

Fetch == \E id \in RequestIds : FetchReq(id)

\* DELETE /api/files/:id up to `await ...delete()`
DeleteReq(id) == Await("delete", 0, SomeId(id), 0)

Delete == \E id \in RequestIds : DeleteReq(id)

\* POST /api/search up to `await ...get()`; a missing term is answered at once
SearchReq(term) ==
    IF ~Truthy(term)
    THEN AnswerAtOnce("search", term, searchHandler(store, term, TRUE))
    ELSE Await("search", 0, term, 0)

Search == \E t \in 1..Len(SearchTerms) : SearchReq(SearchTerms[t])

\* the store settles the set() of the upload in slot s: it commits the write
\* at its own time, or rejects it
StoreWrite(s, ok) ==
    LET slot == inflight[s]
        saved == saveToFirestore(store, ExcelData(Files[slot.f], slot.req), slot.req,
                                 slot.now, serverTime + 1, ok)
    IN /\ slot.pc = "pending"
       /\ slot.op = "upload"
       /\ store' = saved.docs
       /\ serverTime' = IF saved.threw THEN serverTime ELSE serverTime + 1
       /\ firstAt' = IF ~saved.threw /\ saved.id \notin DOMAIN firstAt
                     THEN [i \in DOMAIN firstAt \cup {saved.id} |->
                              IF i = saved.id THEN serverTime + 1 ELSE firstAt[i]]
                     ELSE firstAt
       /\ inflight' = [inflight EXCEPT ![s].pc = "served", ![s].ok = ~saved.threw]
       /\ resp' = NoResponse
       /\ UNCHANGED <<clock, codec, arrived>>

\* the store settles the delete() of the request in slot s
StoreDelete(s, ok) ==
    LET slot == inflight[s]
        r == deleteHandler(store, slot.req.v, ok)
    IN /\ slot.pc = "pending"
       /\ slot.op = "delete"
       /\ store' = r.docs
       /\ firstAt' = IF r.status = 200
                     THEN [i \in DOMAIN firstAt \ {slot.req.v} |-> firstAt[i]]
                     ELSE firstAt
       /\ inflight' = [inflight EXCEPT ![s].pc = "served", ![s].ok = ok]
       /\ resp' = NoResponse
       /\ UNCHANGED <<clock, serverTime, codec, arrived>>

\* what a get() returns from the collection docs: the one document of a
\* fetch, if it exists, or all documents
Snapshot(docs, op, req) ==
    IF op = "fetch" THEN [i \in DOMAIN docs \cap {req.v} |-> docs[i]] ELSE docs

\* the store settles the get() of the list, fetch or search in slot s
StoreRead(s, ok) ==
    LET slot == inflight[s] IN
    /\ slot.pc = "pending"
    /\ slot.op \in {"list", "fetch", "search"}
    /\ inflight' = [inflight EXCEPT
                      ![s].pc = "served", ![s].ok = ok,
                      ![s].snap = IF ok THEN Snapshot(store, slot.op, slot.req)
                                  ELSE EmptyStore]
    /\ resp' = NoResponse
    /\ UNCHANGED <<store, clock, serverTime, firstAt, codec, arrived>>

\* the handler's answer once its store call is settled
Answer(slot, docs, time) ==
    CASE slot.op = "upload" ->
            uploadHandler(docs, Files[slot.f], slot.req, slot.now, time, slot.ok)
      [] slot.op = "list" -> listHandler(slot.snap, slot.ok)
      [] slot.op = "fetch" -> fetchHandler(slot.snap, slot.req.v, slot.ok)
      [] slot.op = "delete" -> deleteHandler(docs, slot.req.v, slot.ok)
      [] slot.op = "search" -> searchHandler(slot.snap, slot.req, slot.ok)

\* the handler in slot s runs on from its await and responds
RespondReq(s) ==
    /\ inflight[s].pc = "served"
    /\ resp' = Reply(inflight[s].op, inflight[s].req, Answer(inflight[s], store, serverTime))
    /\ inflight' = [inflight EXCEPT ![s] = IdleSlot]
    /\ UNCHANGED <<store, clock, serverTime, firstAt, codec, arrived>>

ServeWrite == \E s \in 1..MaxInflight, ok \in BOOLEAN : StoreWrite(s, ok)

ServeDelete == \E s \in 1..MaxInflight, ok \in BOOLEAN : StoreDelete(s, ok)

ServeRead == \E s \in 1..MaxInflight, ok \in BOOLEAN : StoreRead(s, ok)

Respond == \E s \in 1..MaxInflight : RespondReq(s)

\* the process clock advances
Tick ==
    /\ clock < MaxClock
    /\ clock' = clock + 1
    /\ resp' = NoResponse
    /\ UNCHANGED <<store, serverTime, firstAt, codec, arrived, inflight>>

Next ==
    \/ Upload \/ List \/ Fetch \/ Delete \/ Search
    \/ ServeWrite \/ ServeDelete \/ ServeRead
    \/ Respond
    \/ Tick

Spec == Init /\ [][Next]_vars

-----------------------------------------------------------------------------
(* The codec on its own: Encode, then Decode, of bounded inputs *)

\* the cell values rows are built from
CellCycle ==
    <<StrCell(<<"a", "B">>), NumCell(0), EmptyCell, BoolCell(FALSE),
      StrCell(<<>>), NumCell(12), BoolCell(TRUE)>>

\* the row of len cells that starts at CellCycle[k] and wraps around
RowAt(k, len) == [i \in 1..len |-> CellCycle[((k + i - 2) % Len(CellCycle)) + 1]]

\* a header sequence of length c
HeadersOf(c) == [i \in 1..c |-> <<"h">> \o NatToChars(i - 1)]

CodecInit ==
    /\ store = EmptyStore
    /\ firstAt = EmptyStore
    /\ clock = 0
    /\ serverTime = 0
    /\ resp = NoResponse
    /\ arrived = 0
    /\ inflight = NoneInflight
    /\ \E c \in 0..MaxCols, n \in 0..MaxRows :
         \E ks \in [1..n -> 1..Len(CellCycle)], ls \in [1..n -> 0..MaxRowLen] :
            codec = [pc |-> "input",
                     headers |-> HeadersOf(c),
                     rows |-> [i \in 1..n |-> RowAt(ks[i], ls[i])],
                     rowsData |-> <<>>,
                     decoded |-> <<>>]

CodecEncode ==
    /\ codec.pc = "input"
    /\ codec' = [codec EXCEPT !.pc = "encoded",
                              !.rowsData = convertRowsForFirestore(codec.headers, codec.rows)]
    /\ UNCHANGED <<store, clock, serverTime, resp, firstAt, arrived, inflight>>

CodecDecode ==
    /\ codec.pc = "encoded"
    /\ codec' = [codec EXCEPT !.pc = "decoded",
                              !.decoded = convertFirestoreToRows(codec.headers, codec.rowsData)]
    /\ UNCHANGED <<store, clock, serverTime, resp, firstAt, arrived, inflight>>

CodecNext == CodecEncode \/ CodecDecode

CodecSpec == CodecInit /\ [][CodecNext]_vars

-----------------------------------------------------------------------------
(* Properties of the codec *)

\* the string form of a cell: the text of a string, the decimal digits of a
\* number, true / false for a boolean, the empty string for an empty cell
StringForm(c) ==
    CASE c.t = "str" -> c.v
      [] c.t = "num" -> NatToChars(c.v)
      [] c.t = "bool" -> (IF c.v THEN <<"t", "r", "u", "e">> ELSE <<"f", "a", "l", "s", "e">>)
      [] c.t = "empty" -> <<>>

\* C3: Decode(headers, Encode(headers, rows)) has one row per input row, in
\* order, each of length C = Len(headers); position h holds the string form of
\* the input cell at h, the empty string where the row has no cell at h, and
\* the cells at positions >= C are dropped.
C3_RoundTrip ==
    codec.pc = "decoded" =>
        /\ Len(codec.decoded) = Len(codec.rows)
        /\ \A i \in 1..Len(codec.rows) :
              /\ Len(codec.decoded[i]) = Len(codec.headers)
              /\ \A h \in 1..Len(codec.headers) :
                    codec.decoded[i][h] =
                        IF h <= Len(codec.rows[i]) THEN StringForm(codec.rows[i][h])
                        ELSE <<>>

\* a decoded input with a row shorter and a row longer than the headers, and
\* the number 0 and the boolean false among the cells that are kept
C3_Witness ==
    /\ codec.pc = "decoded"
    /\ Len(codec.headers) = 2
    /\ \E i, j \in 1..Len(codec.rows) :
          /\ Len(codec.rows[i]) < 2
          /\ Len(codec.rows[j]) > 2
          /\ codec.rows[j][1] = NumCell(0)
          /\ codec.decoded[j] = <<<<"0">>, <<>>>>
    /\ \E i \in 1..Len(codec.rows) :
          /\ Len(codec.rows[i]) >= 1
          /\ codec.rows[i][1] = BoolCell(FALSE)
          /\ codec.decoded[i][1] = <<"f", "a", "l", "s", "e">>

\* C4: Encode(headers, rows) has exactly Len(rows) mappings, the mapping at
\* position i (from 0) has rowIndex = i, and its keys are rowIndex and
\* col_0 .. col_(C-1), whatever the length of the row.
C4_RowIndexAndKeys ==
    codec.pc \in {"encoded", "decoded"} =>
        /\ Len(codec.rowsData) = Len(codec.rows)
        /\ \A i \in 1..Len(codec.rows) :
              /\ codec.rowsData[i]["rowIndex"] = i - 1
              /\ DOMAIN codec.rowsData[i] =
                    {"rowIndex"} \cup {ColKey(h) : h \in 0..(Len(codec.headers) - 1)}

\* an encoded input of two rows, one shorter and one longer than two headers
C4_Witness ==
    /\ codec.pc = "encoded"
    /\ Len(codec.headers) = 2
    /\ Len(codec.rows) = 2
    /\ Len(codec.rows[1]) = 3
    /\ Len(codec.rows[2]) = 0
    /\ codec.rowsData[2] = [rowIndex |-> 1, col_0 |-> <<>>, col_1 |-> <<>>]

-----------------------------------------------------------------------------
(* Properties of the service *)

\* the id an upload in a slot is stored under
TargetId(slot) ==
    IF Truthy(slot.req) THEN slot.req.v ELSE generateDocumentId(slot.req.v, slot.now)

\* the step commits the set() of the upload in slot s
Commits(s) ==
    /\ inflight[s].pc = "pending"
    /\ inflight[s].op = "upload"
    /\ StoreWrite(s, TRUE)

\* the step is the response of the request of kind op in slot s
Responds(s, op) ==
    /\ inflight[s].pc = "served"
    /\ inflight[s].op = op
    /\ RespondReq(s)

\* the step receives the upload of Files[f] with documentId CustomIds[c]
Receives(f, c) ==
    /\ arrived' = arrived + 1
    /\ UploadReq(f, CustomIds[c])

\* the fields a write of saveToFirestore contains
WrittenFields == {"fileName", "headers", "rowsData", "rowCount", "uploadedAt", "updatedAt"}

\* the explicit ids of the upload requests
ExplicitIds == {CustomIds[c].v : c \in {k \in 1..Len(CustomIds) : Truthy(CustomIds[k])}}

\* C1: a record under an explicit id that uploads wrote more than once, with
\* no delete in between, still has the write time of the first of them as
\* uploadedAt, and an updatedAt that is not earlier.
C1_UploadedAtPreserved ==
    \A id \in ExplicitIds \cap DOMAIN store :
        firstAt[id] >= 1 =>
            /\ store[id].uploadedAt = firstAt[id]
            /\ store[id].updatedAt >= firstAt[id]

\* C2: an upload of a sheet with at least one data row and no explicit
\* identity (absent or empty) is not answered with an error before the store
\* is called, and when the store accepts the write the response is a success
\* naming an identity derived from the file name and a suffix.
C2_DerivedUploadSucceeds ==
    [][/\ \A f \in 1..Len(Files), c \in 1..Len(CustomIds) :
             (/\ Receives(f, c)
              /\ Files[f].present
              /\ fileFilter(Files[f].originalname)
              /\ Len(Files[f].jsonData) >= 2
              /\ ~Truthy(CustomIds[c]))
             => resp' = NoResponse
       /\ \A s \in 1..MaxInflight :
             (Responds(s, "upload") /\ ~Truthy(inflight[s].req) /\ inflight[s].ok)
             => /\ resp'.status = 200
                /\ resp'.body.firestore.id =
                      generateDocumentId(Files[inflight[s].f].originalname, inflight[s].now)
      ]_vars

\* C5: a committed upload with an explicit id creates the record when there
\* is none; on an existing record the fields of the write take the new values
\* (headers and rowsData as wholes), every field the write does not contain
\* keeps its value, and the records under all other ids are unchanged; the
\* upload is then answered with a success that names the id.
C5_ExplicitMerge ==
    [][/\ \A s \in 1..MaxInflight :
             (Commits(s) /\ Truthy(inflight[s].req))
             => LET id == inflight[s].req.v
                    headers == Files[inflight[s].f].jsonData[1]
                    rows == Tail(Files[inflight[s].f].jsonData)
                IN /\ DOMAIN store' = DOMAIN store \cup {id}
                   /\ store'[id].fileName = id
                   /\ store'[id].headers = headers
                   /\ Len(store'[id].rowsData) = Len(rows)
                   /\ store'[id].rowsData = convertRowsForFirestore(headers, rows)
                   /\ store'[id].rowCount = Len(rows)
                   /\ store'[id].updatedAt = serverTime'
                   /\ serverTime' = serverTime + 1
                   /\ IF id \in DOMAIN store
                      THEN /\ DOMAIN store'[id] = DOMAIN store[id] \cup WrittenFields
                           /\ \A fld \in DOMAIN store[id] \ WrittenFields :
                                 store'[id][fld] = store[id][fld]
                      ELSE DOMAIN store'[id] = WrittenFields
                   /\ \A j \in DOMAIN store \ {id} : store'[j] = store[j]
       /\ \A s \in 1..MaxInflight :
             (Responds(s, "upload") /\ Truthy(inflight[s].req) /\ inflight[s].ok)
             => /\ resp'.status = 200
                /\ resp'.body.firestore.id = inflight[s].req.v
      ]_vars

\* an upload was merged into a record that carries a field of another writer,
\* which is still there, beside a record under another id, and was answered
C5_Witness ==
    /\ resp.op = "upload"
    /\ resp.status = 200
    /\ Truthy(resp.req)
    /\ resp.req.v \in DOMAIN store
    /\ "note" \in DOMAIN store[resp.req.v]
    /\ store[resp.req.v].note = <<"x">>
    /\ store[resp.req.v].updatedAt >= 1
    /\ store[resp.req.v].headers = <<<<"N">>, <<"Q">>>>
    /\ Cardinality(DOMAIN store) >= 2

\* C6 as stated: an upload of a sheet without data rows (no rows at all, or a
\* header row only) causes no store write and is answered 400.
C6_NoDataRowsRejected ==
    [][/\ \A s \in 1..MaxInflight :
             Commits(s) => Len(Files[inflight[s].f].jsonData) >= 2
       /\ \A s \in 1..MaxInflight :
             (Responds(s, "upload") /\ Len(Files[inflight[s].f].jsonData) <= 1)
             => resp'.status = 400
      ]_vars

\* C6 as amended: an upload without a payload, or of a sheet that parses to no
\* rows at all (not even a header row), is answered 400 at once, without a
\* store call; no upload that reached the store is answered 400; a sheet of a
\* header row and no data rows is not rejected: with an explicit id it goes to
\* the store, is stored with rowCount 0 when the store accepts the write, and
\* is answered with a success.
C6_EmptyPayloadRejected ==
    [][/\ \A f \in 1..Len(Files), c \in 1..Len(CustomIds) :
             Receives(f, c)
             => /\ (~Files[f].present
                      \/ (fileFilter(Files[f].originalname) /\ Len(Files[f].jsonData) = 0))
                   => /\ resp'.status = 400
                      /\ UNCHANGED <<store, serverTime, inflight>>
                /\ (/\ Files[f].present
                    /\ fileFilter(Files[f].originalname)
                    /\ Len(Files[f].jsonData) = 1
                    /\ Truthy(CustomIds[c]))
                   => /\ resp' = NoResponse
                      /\ \E s \in 1..MaxInflight :
                            /\ inflight[s].pc = "idle"
                            /\ inflight'[s].pc = "pending"
                            /\ inflight'[s].f = f
       /\ \A s \in 1..MaxInflight :
             (Commits(s) /\ Len(Files[inflight[s].f].jsonData) = 1)
             => /\ store'[TargetId(inflight[s])].rowCount = 0
                /\ store'[TargetId(inflight[s])].rowsData = <<>>
       /\ \A s \in 1..MaxInflight :
             Responds(s, "upload")
             => /\ resp'.status = IF inflight[s].ok THEN 200 ELSE 500
                /\ UNCHANGED store
       /\ (resp'.op = "upload" /\ resp'.status = 400) => UNCHANGED store
      ]_vars

\* an empty sheet was just refused while a record written earlier is stored
C6_Witness ==
    /\ resp.op = "upload"
    /\ resp.status = 400
    /\ resp.body.error = "file is empty"
    /\ serverTime >= 1
    /\ \E id \in DOMAIN store : store[id].updatedAt >= 1

\* C7: a delete the store accepts removes the record of the id, if there is
\* one, and nothing else, and is answered with a success whether or not the
\* record existed; a fetch that reads the id while it is not stored answers
\* 404, and the id is stored again only when the store commits an upload to it.
C7_DeleteThenNotFound ==
    [][/\ \A s \in 1..MaxInflight :
             (inflight[s].pc = "pending" /\ inflight[s].op = "delete" /\ StoreDelete(s, TRUE))
             => LET id == inflight[s].req.v IN
                /\ DOMAIN store' = DOMAIN store \ {id}
                /\ \A j \in DOMAIN store \ {id} : store'[j] = store[j]
                /\ fetchHandler(Snapshot(store', "fetch", SomeId(id)), id, TRUE).status = 404
       /\ \A s \in 1..MaxInflight :
             (Responds(s, "delete") /\ inflight[s].ok) => resp'.status = 200
       /\ \A s \in 1..MaxInflight :
             (inflight[s].pc = "pending" /\ inflight[s].op = "fetch" /\ StoreRead(s, TRUE))
             => (inflight[s].req.v \in DOMAIN inflight'[s].snap
                    <=> inflight[s].req.v \in DOMAIN store)
       /\ \A s \in 1..MaxInflight :
             (Responds(s, "fetch") /\ inflight[s].ok)
             => (resp'.status = 404 <=> inflight[s].req.v \notin DOMAIN inflight[s].snap)
       /\ \A id \in RequestIds :
             (id \notin DOMAIN store /\ id \in DOMAIN store')
             => \E s \in 1..MaxInflight : Commits(s) /\ TargetId(inflight[s]) = id
      ]_vars

\* two deletes of the same id were in flight together and the store accepted
\* both: one has just been answered with a success, the other is about to
\* be, the id is not stored and a record under another id still is
C7_Witness ==
    /\ resp.op = "delete"
    /\ resp.status = 200
    /\ resp.req.v \notin DOMAIN store
    /\ \E s \in 1..MaxInflight :
          /\ inflight[s].pc = "served"
          /\ inflight[s].op = "delete"
          /\ inflight[s].req = resp.req
          /\ inflight[s].ok
    /\ DOMAIN store # {}

\* a row matches: one of its cells, lower-cased, contains the lower-cased term
CellsContain(row, term) ==
    \E h \in 1..Len(row) : \E k \in 0..(Len(row[h]) - Len(term)) :
        \A j \in 1..Len(term) : LowerChar(row[h][k + j]) = LowerChar(term[j])

\* C8: a search for a non-empty term gets the whole collection from the store
\* and returns one result for each record of it with a matching row and none
\* for the others; matchingRows are the record's matching rows in decode
\* order, matchCount their number, and totalMatches the number of results.
C8_SearchResults ==
    [][/\ \A s \in 1..MaxInflight :
             (inflight[s].pc = "pending" /\ inflight[s].op = "search" /\ StoreRead(s, TRUE))
             => inflight'[s].snap = store
       /\ \A s \in 1..MaxInflight :
             (Responds(s, "search") /\ inflight[s].ok)
             => LET docs == inflight[s].snap
                    term == inflight[s].req.v
                    results == resp'.body.results
                    Rows(id) == convertFirestoreToRows(docs[id].headers, docs[id].rowsData)
                    Matching(id) == {i \in 1..Len(Rows(id)) : CellsContain(Rows(id)[i], term)}
                IN /\ resp'.status = 200
                   /\ term # <<>>
                   /\ resp'.body.totalMatches = Len(results)
                   /\ \A id \in DOMAIN docs :
                         Cardinality({k \in 1..Len(results) : results[k].id = id})
                             = IF Matching(id) # {} THEN 1 ELSE 0
                   /\ \A k \in 1..Len(results) :
                         /\ results[k].id \in DOMAIN docs
                         /\ results[k].matchCount = Cardinality(Matching(results[k].id))
                         /\ Len(results[k].matchingRows) = results[k].matchCount
                         /\ \A n \in 1..Len(results[k].matchingRows) :
                               \E i \in Matching(results[k].id) :
                                  /\ Cardinality({m \in Matching(results[k].id) : m <= i}) = n
                                  /\ results[k].matchingRows[n] = Rows(results[k].id)[i]
      ]_vars

\* a search for a term that is a proper part of a first cell of one row and
\* the whole second cell of a later row found these two rows of a record, in
\* their order, not the row between them, and left out a stored record that
\* has a row but none that matches
C8_Witness ==
    /\ resp.op = "search"
    /\ resp.status = 200
    /\ resp.req.v = <<"b">>
    /\ Len(resp.body.results) = 1
    /\ resp.body.results[1].matchCount = 2
    /\ resp.body.results[1].matchingRows = << <<<<"A", "b">>, <<>>>>, <<<<>>, <<"b">>>> >>
    /\ resp.body.results[1].id \in DOMAIN store
    /\ store[resp.body.results[1].id].rowCount = 3
    /\ \E id \in DOMAIN store :
          /\ store[id].rowCount >= 1
          /\ resp.body.results[1].id # id

\* C9: the list a query of the collection yields has one entry per stored
\* record, count is their number, and the entries are in descending order of
\* the time each record was first persisted.
C9_ListByFirstPersisted ==
    [][\A s \in 1..MaxInflight :
          (inflight[s].pc = "pending" /\ inflight[s].op = "list" /\ StoreRead(s, TRUE))
          => LET answer == listHandler(inflight'[s].snap, TRUE)
                 files == answer.body.files
             IN /\ answer.status = 200
                /\ answer.body.count = Len(files)
                /\ Len(files) = Cardinality(DOMAIN store)
                /\ {files[k].id : k \in 1..Len(files)} = DOMAIN store
                /\ \A i, j \in 1..Len(files) :
                      i < j => firstAt[files[i].id] >= firstAt[files[j].id]
      ]_vars

\* C10: an upload without an explicit identity is stored under an id no
\* earlier upload got: its write never goes to a record that is already stored.
C10_DerivedIdsDistinct ==
    [][\A s \in 1..MaxInflight :
          (Commits(s) /\ ~Truthy(inflight[s].req))
          => TargetId(inflight[s]) \notin DOMAIN store
      ]_vars

\* C11: in every reachable state, every record this service wrote has
\* rowCount = the length of rowsData, and every mapping of rowsData has, beside
\* rowIndex, exactly the keys col_0 .. col_(C-1) for the C headers of the same
\* record: a merge over a record of another shape leaves no stale key or row.
C11_RecordShape ==
    \A id \in DOMAIN store :
        store[id].updatedAt >= 1 =>
            /\ store[id].rowCount = Len(store[id].rowsData)
            /\ \A i \in 1..Len(store[id].rowsData) :
                  DOMAIN store[id].rowsData[i] =
                      {"rowIndex"} \cup {ColKey(h) : h \in 0..(Len(store[id].headers) - 1)}

\* an upload of three rows under two headers was merged into the record of
\* another client, which had one row under one header
C11_Witness ==
    /\ <<"a">> \in DOMAIN store
    /\ "note" \in DOMAIN store[<<"a">>]
    /\ store[<<"a">>].updatedAt >= 1
    /\ Len(store[<<"a">>].headers) = 2
    /\ store[<<"a">>].rowCount = 3
    /\ Len(LegacyDoc.headers) = 1
    /\ LegacyDoc.rowCount = 1

\* the fields of a stored record that an upload supplies from its sheet
SheetFields == {"fileName", "headers", "rowsData", "rowCount"}

SheetPart(doc) == [k \in SheetFields \cap DOMAIN doc |-> doc[k]]

\* what the upload of Files[f] with documentId customId supplies
UploadPart(f, customId) == SheetPart(DocData(ExcelData(Files[f], customId), 0))

\* C12: with uploads to the same explicit id in flight together, every commit
\* of one of them, in whatever order the store takes them, leaves the record
\* with fileName, headers, rowsData and rowCount all of that one upload, so
\* the record is always that of the upload committed last and never a mix of
\* two; a fetch or search gets the collection as it is between two commits,
\* and a fetch answers with the fields of the one record it got.
C12_OneUploadPerRecord ==
    [][/\ \A s \in 1..MaxInflight :
             (Commits(s) /\ Truthy(inflight[s].req))
             => SheetPart(store'[inflight[s].req.v])
                   = UploadPart(inflight[s].f, inflight[s].req)
       /\ \A id \in DOMAIN store' :
             store'[id].updatedAt >= 1
             => \E f \in 1..Len(Files), c \in 1..Len(CustomIds) :
                   /\ ~EndsBeforeStore(Files[f], CustomIds[c])
                   /\ SheetPart(store'[id]) = UploadPart(f, CustomIds[c])
       /\ \A s \in 1..MaxInflight :
             (/\ inflight[s].pc = "pending"
              /\ inflight[s].op \in {"fetch", "search"}
              /\ StoreRead(s, TRUE))
             => \A id \in DOMAIN store :
                   (inflight[s].op = "search" \/ id = inflight[s].req.v)
                   => /\ id \in DOMAIN inflight'[s].snap
                      /\ inflight'[s].snap[id] = store[id]
       /\ \A s \in 1..MaxInflight :
             (Responds(s, "fetch") /\ resp'.status = 200)
             => LET doc == inflight[s].snap[inflight[s].req.v] IN
                /\ resp'.body.fileName = doc.fileName
                /\ resp'.body.headers = doc.headers
                /\ resp'.body.rowCount = doc.rowCount
                /\ resp'.body.rows = convertFirestoreToRows(doc.headers, doc.rowsData)
      ]_vars

\* two uploads of sheets of different shape to the same explicit id are in
\* flight together and the store has committed both: the record has the
\* headers, rows and row count of one of them
C12_Witness ==
    /\ \A s \in 1..2 :
          /\ inflight[s].pc = "served"
          /\ inflight[s].op = "upload"
          /\ inflight[s].ok
          /\ inflight[s].req = SomeId(<<"a">>)
    /\ Len(Files[inflight[1].f].jsonData) # Len(Files[inflight[2].f].jsonData)
    /\ \E s \in 1..2 :
          /\ store[<<"a">>].headers = Files[inflight[s].f].jsonData[1]
          /\ store[<<"a">>].rowCount = Len(Files[inflight[s].f].jsonData) - 1
          /\ Len(store[<<"a">>].rowsData) = store[<<"a">>].rowCount

=============================================================================
